---- MODULE Spec2Model ----
(***************************************************************************)
(* Model of cifscloak.py: the encrypted cifstab store, the mount            *)
(* orchestration loop and the bounded-retry executor.  One behaviour is one *)
(* invocation of the command line tool against a file system state left by  *)
(* earlier invocations.                                                     *)
(***************************************************************************)
EXTENDS Integers, Sequences, FiniteSets, TLC

(* ------------------------------ bounds --------------------------------- *)

\* longest explicit --names list that is enumerated
MaxLen == 3

\* largest --retries value that is enumerated (0..MaxRetries)
MaxRetries == 3

\* number of invocations that start at once in SpecKey
NumProcs == 2

(* --------------------------- input domains ----------------------------- *)

Names == {"a", "b"}

\* key material: K0 is a key that was lost (rows written under it are
\* foreign ciphertext), K1 the key in the key file, KGen a freshly generated one
K0 == "k0"
K1 == "k1"
KGen == "kgen"
NoFile == "absent"

Passwords == {"secret", "hunter2"}

MountPointOf(n) == <<"/mnt", n>>

\* return codes of the external command: 0 and mount(8)'s failure code
ReturnCodes == {0, 32}

(* ----------------- stderr texts, as character sequences ----------------- *)

ErrBusy16 == <<"m", "o", "u", "n", "t", " ", "e", "r", "r", "o", "r", "(", "1", "6", ")">>
ErrNoEnt == <<"m", "o", "u", "n", "t", " ", "e", "r", "r", "o", "r", "(", "2", ")">>
ErrTargetBusy == <<"u", ":", " ", "/", "m", ":", " ", "t", "a", "r", "g", "e", "t", " ", "i", "s", " ", "b", "u", "s", "y", ".">>
ErrEmpty == <<>>

Stderrs == {ErrBusy16, ErrNoEnt, ErrTargetBusy, ErrEmpty}

(* ------------------------- retryschema (l.31-34) ------------------------ *)

\* list(self.retryschema['mount']) is the list of the dict's keys
retryschema_mount == << <<"1", "6">> >>

retryschema_umount == << <<"t", "a", "r", "g", "e", "t", " ", "i", "s", " ", "b", "u", "s", "y", ".">> >>

(* ------------- regex.search(r'(?|error\((\d+)\)|.+:.+:\s{1}(.+))') ------- *)

Digits == {"0", "1", "2", "3", "4", "5", "6", "7", "8", "9"}

IsSpace(c) == c \in {" ", "\t", "\n"}

\* '.' matches every character but the newline
IsDot(c) == c # "\n"

ErrorParen == <<"e", "r", "r", "o", "r", "(">>

\* number of consecutive characters of s from position p on that satisfy the
\* class (greedy quantifier)
RECURSIVE DigitRun(_, _)
DigitRun(s, p) ==
    IF p <= Len(s) /\ s[p] \in Digits THEN 1 + DigitRun(s, p + 1) ELSE 0

RECURSIVE DotRun(_, _)
DotRun(s, p) ==
    IF p <= Len(s) /\ IsDot(s[p]) THEN 1 + DotRun(s, p + 1) ELSE 0

\* first alternative at position p: error\((\d+)\)
Alt1Matches(s, p) ==
    /\ p + 5 <= Len(s)
    /\ SubSeq(s, p, p + 5) = ErrorParen
    /\ DigitRun(s, p + 6) >= 1
    /\ p + 6 + DigitRun(s, p + 6) <= Len(s)
    /\ s[p + 6 + DigitRun(s, p + 6)] = ")"

Alt1Group(s, p) == SubSeq(s, p + 6, p + 5 + DigitRun(s, p + 6))

\* second alternative at position p: .+:.+:\s{1}(.+)
\* <<c1, c2>> are the positions of the two literal colons
Alt2Colons(s, p) ==
    { cc \in (1..Len(s)) \X (1..Len(s)) :
        /\ cc[1] > p
        /\ cc[2] > cc[1] + 1
        /\ s[cc[1]] = ":"
        /\ s[cc[2]] = ":"
        /\ \A q \in p..(cc[2] - 1) : IsDot(s[q])
        /\ cc[2] + 2 <= Len(s)
        /\ IsSpace(s[cc[2] + 1])
        /\ IsDot(s[cc[2] + 2]) }

Alt2Matches(s, p) == Alt2Colons(s, p) # {}

\* greedy: the first .+ is as long as possible, then the second
Alt2Choice(s, p) ==
    CHOOSE cc \in Alt2Colons(s, p) :
        \A dd \in Alt2Colons(s, p) :
            \/ dd[1] < cc[1]
            \/ dd[1] = cc[1] /\ dd[2] <= cc[2]

Alt2Group(s, p) ==
    LET c2 == Alt2Choice(s, p)[2]
    IN  SubSeq(s, c2 + 2, c2 + 1 + DotRun(s, c2 + 2))

MatchesAt(s, p) == Alt1Matches(s, p) \/ Alt2Matches(s, p)

\* regex.search: the leftmost position where an alternative matches, the
\* first alternative taking precedence; matched = FALSE is Python's None
RegexSearch(s) ==
    IF \E p \in 1..Len(s) : MatchesAt(s, p)
    THEN LET p == CHOOSE q \in 1..Len(s) :
                      MatchesAt(s, q) /\ \A r \in 1..(q - 1) : ~MatchesAt(s, r)
         IN  [matched |-> TRUE,
              group |-> IF Alt1Matches(s, p) THEN Alt1Group(s, p) ELSE Alt2Group(s, p)]
    ELSE [matched |-> FALSE, group |-> <<>>]

\* str(mounterr) in retryon
InList(x, list) == \E k \in 1..Len(list) : list[k] = x

(* --------------------------- Fernet (l.122-126) ------------------------ *)

encrypt(k, plain) == [key |-> k, plain |-> plain]

\* Fernet authenticates the token: a token of another key does not decrypt
Decryptable(k, token) == token.key = k

decrypt(k, token) == token.plain

(* ----------------------- the cifstab table (l.18-29) -------------------- *)

\* the table is a function from the stored names (PRIMARY KEY) to rows
cifstabschema ==
    [address : [key : {K0, K1, KGen}, plain : {"10.0.0.5"}],
     sharename : [key : {K0, K1, KGen}, plain : {"docs", "films"}],
     mountpoint : [key : {K0, K1, KGen}, plain : {MountPointOf(n) : n \in Names}],
     options : [key : {K0, K1, KGen}, plain : {" "}],
     user : [key : {K0, K1, KGen}, plain : {"alice"}],
     password : [key : {K0, K1, KGen}, plain : Passwords]]

\* the row an earlier addmount under key k left for name n
StoredRow(n, k) ==
    [address |-> encrypt(k, "10.0.0.5"), sharename |-> encrypt(k, "docs"),
     mountpoint |-> encrypt(k, MountPointOf(n)), options |-> encrypt(k, " "),
     user |-> encrypt(k, "alice"), password |-> encrypt(k, "secret")]

\* variant: INSERT OR REPLACE, the primary key never conflicts
IntegrityError_Never(tab, n) == FALSE

\* INSERT INTO cifstab ... : IntegrityError when the primary key exists
IntegrityError(tab, n) == n \in DOMAIN tab

InsertRow(tab, n, row) == [m \in (DOMAIN tab) \cup {n} |-> IF m = n THEN row ELSE tab[m]]

\* variant: DELETE without its WHERE clause
DeleteRow_All(tab, n) == <<>>

\* DELETE FROM cifstab WHERE name = ?
DeleteRow(tab, n) == [m \in (DOMAIN tab) \ {n} |-> tab[m]]

RECURSIVE DeleteRows(_, _)
DeleteRows(tab, names) ==
    IF names = <<>> THEN tab
    ELSE DeleteRows(DeleteRow(tab, Head(names)), Tail(names))

(* ------------------------- pure helpers of mount ------------------------ *)

\* variant: list(args.names), repetitions kept
Dedup_Identity(names) == names

\* list(dict.fromkeys(args.names)): first occurrences, in order
RECURSIVE Dedup(_)
Dedup(names) ==
    IF names = <<>> THEN <<>>
    ELSE LET front == Dedup(SubSeq(names, 1, Len(names) - 1))
             last == names[Len(names)]
         IN  IF \E k \in 1..Len(front) : front[k] = last
             THEN front ELSE Append(front, last)

\* every ordering of a set, as sequences (SELECT without ORDER BY)
Orderings(S) ==
    { q \in [1..Cardinality(S) -> S] : \A i, j \in 1..Cardinality(S) : i # j => q[i] # q[j] }

NameLists == UNION { [1..k -> Names] : k \in 1..MaxLen }

\* variant: the retry limit is not tested
LoopCond_NoLimit(rc, att, retries) == rc # <<0>>

\* variant: attempts[name] <= retries
LoopCond_OffByOne(rc, att, retries) == rc # <<0>> /\ att <= retries

\* while returncode != expectedreturn and attempts[name] < retries (l.138)
LoopCond(rc, att, retries) == rc # <<0>> /\ att < retries

\* variant: one allow-list for both operations
Retryable_AnySchema(mounterr, allow) ==
    InList(mounterr, retryschema_mount \o retryschema_umount)

\* variant: every token is retried
Retryable_Always(mounterr, allow) == TRUE

\* str(mounterr) in retryon (l.150)
Retryable(mounterr, allow) == InList(mounterr, allow)

\* the not-found branch of mount (l.104-108)
NotFound(st, n) ==
    [st EXCEPT !.messages = Append(@, [fmt |-> "cifs name {} not found in cifstab",
                                       name |-> n, text |-> <<>>]),
               !.error = 1]

\* variant: l.148 missing, the stderr text is not kept
AttemptFailed_NoMessage(st, n, stderr) == [st EXCEPT !.error = 1]

\* the failed-attempt bookkeeping of execute (l.147-148)
AttemptFailed(st, n, stderr) ==
    [st EXCEPT !.error = 1,
               !.messages = Append(@, [fmt |-> "{}: {}", name |-> n, text |-> stderr])]

\* self.status['attempts'][name] += 1 (l.157)
CountAttempt(st, n) == [st EXCEPT !.attempts[n] = @ + 1]

\* variant: l.162 missing, failedcount is not incremented
RecordOutcome_NoCount(st, n, rc) ==
    IF rc # <<0>>
    THEN [st EXCEPT !.error = 1, !.failed = Append(@, n)]
    ELSE [st EXCEPT !.successcount = @ + 1, !.success = Append(@, n)]

\* variant: l.160 missing, the flag is left to the failed attempts
RecordOutcome_NoError(st, n, rc) ==
    IF rc # <<0>>
    THEN [st EXCEPT !.failed = Append(@, n), !.failedcount = @ + 1]
    ELSE [st EXCEPT !.successcount = @ + 1, !.success = Append(@, n)]

\* the final bookkeeping of execute (l.159-165)
RecordOutcome(st, n, rc) ==
    IF rc # <<0>>
    THEN [st EXCEPT !.error = 1, !.failed = Append(@, n), !.failedcount = @ + 1]
    ELSE [st EXCEPT !.successcount = @ + 1, !.success = Append(@, n)]

(* -------------------------------- state -------------------------------- *)

VARIABLES
    cifstabdir,   \* does /root/.cifstab exist
    root,         \* may the user create it
    keyfile,      \* content of the key file, or NoFile
    store,        \* the cifstab table
    dirs,         \* the mount-point directories that exist
    args,         \* the parsed command line
    pc,           \* position of the invocation
    key,          \* self.key
    status,       \* self.status
    mounts,       \* the resolved list of mount()
    idx,          \* position of mount()'s for loop in mounts
    name,         \* execute()'s name
    cmd,          \* execute()'s cmd
    retryon,      \* execute()'s retryon
    returncode,   \* execute()'s returncode: <<>> is None, <<rc>> a code
    exitcode,     \* process exit status, -1 while running
    out,          \* syslog, stdout and stderr lines, in order
    trace,        \* external commands run and waits slept, in order
    store0,       \* the cifstab table the invocation started with
    dirs0,        \* the mount-point directories the invocation started with
    kpc,          \* SpecKey: position of each concurrent invocation in l.58-62
    kkey,         \* SpecKey: self.key of each concurrent invocation
    kwrites       \* SpecKey: number of times the key file was written

vars == <<cifstabdir, root, keyfile, store, dirs, args, pc, key, status, mounts,
          idx, name, cmd, retryon, returncode, exitcode, out, trace, store0, dirs0,
          kpc, kkey, kwrites>>

\* history variables: the file system as the invocation found it
hist == <<store0, dirs0>>

\* the state of the concurrent invocations of SpecKey
racevars == <<kpc, kkey, kwrites>>

fsvars == <<cifstabdir, root, keyfile, store, dirs>>

execvars == <<name, cmd, retryon, returncode>>

NoCmd == [prog |-> "none"]

Line(chan, fmt, arg) == [chan |-> chan, fmt |-> fmt, arg |-> arg]

(* ------------------------------- Init ---------------------------------- *)

\* tables earlier invocations can have left: rows written under the key K1
\* of the key file or under a key K0 that has since been lost; a table whose
\* key file is gone altogether holds rows of K0 only
InitStores ==
    UNION { [S -> {K0, K1}] : S \in SUBSET Names }

ArgDefaults ==
    [subcommand |-> "listmounts", name |-> "a", sharename |-> "docs",
     names |-> <<>>, all |-> FALSE, u |-> FALSE, retries |-> 3]

ArgSets ==
    { [ArgDefaults EXCEPT !.subcommand = "addmount", !.name = n, !.sharename = s] :
          n \in Names, s \in {"docs", "films"} }
    \cup { [ArgDefaults EXCEPT !.subcommand = "removemounts", !.names = l] : l \in NameLists }
    \cup { ArgDefaults }
    \cup { [ArgDefaults EXCEPT !.subcommand = "mount", !.names = l, !.u = u, !.retries = r] :
          l \in NameLists, u \in BOOLEAN, r \in 0..MaxRetries }
    \cup { [ArgDefaults EXCEPT !.subcommand = "mount", !.all = TRUE, !.u = u, !.retries = r] :
          u \in BOOLEAN, r \in 0..MaxRetries }

\* self.status of __init__ (l.37)
InitStatus ==
    [error |-> 0, successcount |-> 0, failedcount |-> 0, success |-> <<>>,
     failed |-> <<>>, attempts |-> <<>>, messages |-> <<>>]

Init ==
    /\ cifstabdir \in BOOLEAN
    /\ IF cifstabdir
       THEN /\ root = TRUE
            /\ \/ /\ keyfile = K1
                  /\ \E ks \in InitStores : store = [n \in DOMAIN ks |-> StoredRow(n, ks[n])]
               \/ /\ keyfile = NoFile
                  /\ store = [n \in Names |-> StoredRow(n, K0)]
       ELSE /\ root \in BOOLEAN
            /\ keyfile = NoFile
            /\ store = <<>>
    /\ dirs \in {{}, {MountPointOf("a")}}
    /\ args \in ArgSets
    /\ pc = "init"
    /\ key = "none"
    /\ status = InitStatus
    /\ mounts = <<>>
    /\ idx = 1
    /\ name = "none"
    /\ cmd = NoCmd
    /\ retryon = <<>>
    /\ returncode = <<>>
    /\ exitcode = -1
    /\ out = <<>>
    /\ trace = <<>>
    /\ store0 = store
    /\ dirs0 = dirs
    /\ kpc = <<>>
    /\ kkey = <<>>
    /\ kwrites = 0

(* ------------------------------ actions -------------------------------- *)

\* Cifscloak.__init__ (l.36-62)
Cifscloak_init ==
    /\ pc = "init"
    /\ IF ~cifstabdir /\ ~root
       THEN /\ out' = Append(out, Line("stdout", "PermissionError - must be root user to read cifstab", <<>>))
            /\ pc' = "aborted"
            /\ exitcode' = 1
            /\ UNCHANGED <<cifstabdir, keyfile, key>>
       ELSE /\ cifstabdir' = TRUE
            /\ keyfile' = IF keyfile = NoFile THEN KGen ELSE keyfile
            /\ key' = keyfile'
            /\ pc' = "dispatch"
            /\ UNCHANGED <<out, exitcode>>
    /\ UNCHANGED <<root, store, dirs, args, status, mounts, idx, execvars, hist, racevars, trace>>

\* the lines listmounts prints (l.88-91), for one ordering of the rows
ListLines(order) == [k \in 1..Len(order) |-> Line("stdout", "{}", <<order[k]>>)]

\* Cifscloak.addmount (l.69-79)
addmount ==
    /\ pc = "dispatch"
    /\ args.subcommand = "addmount"
    /\ \E password \in Passwords :
         LET row == [address |-> encrypt(key, "10.0.0.5"),
                     sharename |-> encrypt(key, args.sharename),
                     mountpoint |-> encrypt(key, MountPointOf(args.name)),
                     options |-> encrypt(key, " "),
                     user |-> encrypt(key, "alice"),
                     password |-> encrypt(key, password)]
         IN  IF IntegrityError(store, args.name)
             THEN /\ \E order \in Orderings(DOMAIN store) :
                       out' = Append(out, Line("stdout", "Cifs mount name must be unique", <<>>))
                              \o ListLines(order)
                  /\ store' = store
             ELSE /\ store' = InsertRow(store, args.name, row)
                  /\ out' = out
    /\ pc' = "checkstatus"
    /\ UNCHANGED <<cifstabdir, root, keyfile, dirs, args, key, status, mounts, idx,
                   execvars, hist, racevars, exitcode, trace>>

\* Cifscloak.removemounts (l.81-84)
removemounts ==
    /\ pc = "dispatch"
    /\ args.subcommand = "removemounts"
    /\ store' = DeleteRows(store, args.names)
    /\ pc' = "checkstatus"
    /\ UNCHANGED <<cifstabdir, root, keyfile, dirs, args, key, status, mounts, idx,
                   execvars, hist, racevars, exitcode, out, trace>>

\* Cifscloak.listmounts as a subcommand (l.86-92)
listmounts ==
    /\ pc = "dispatch"
    /\ args.subcommand = "listmounts"
    /\ \E order \in Orderings(DOMAIN store) : out' = out \o ListLines(order)
    /\ pc' = "checkstatus"
    /\ UNCHANGED <<fsvars, args, key, status, mounts, idx, execvars, hist, racevars, exitcode, trace>>

\* Cifscloak.mount, resolving the names (l.94-99)
mount ==
    /\ pc = "dispatch"
    /\ args.subcommand = "mount"
    /\ IF args.all
       THEN \E order \in Orderings(DOMAIN store) :
               /\ mounts' = order
               /\ out' = out \o ListLines(order)
       ELSE /\ mounts' = Dedup(args.names)
            /\ out' = out
    /\ idx' = 1
    /\ pc' = "mount"
    /\ UNCHANGED <<fsvars, args, key, status, execvars, hist, racevars, exitcode, trace>>

\* Cifscloak.getcredentials (l.128-133): can every field of the row be decrypted
CredentialsDecrypt(k, row) ==
    /\ Decryptable(k, row.address)
    /\ Decryptable(k, row.sharename)
    /\ Decryptable(k, row.mountpoint)
    /\ Decryptable(k, row.options)
    /\ Decryptable(k, row.user)
    /\ Decryptable(k, row.password)

getcredentials(k, n, row) ==
    [name |-> n, address |-> decrypt(k, row.address), sharename |-> decrypt(k, row.sharename),
     mountpoint |-> decrypt(k, row.mountpoint), options |-> decrypt(k, row.options),
     user |-> decrypt(k, row.user), password |-> decrypt(k, row.password)]

\* variant: the directory is never created
makedirs_Skip(ds, mountpoint) == ds

\* if not os.path.exists(mountpoint): os.makedirs(mountpoint) (l.116-117)
makedirs(ds, mountpoint) == ds \cup {mountpoint}

\* the command lines of mount (l.112, l.118)
UmountCmd(c) == [prog |-> "umount", mountpoint |-> c.mountpoint]

MountCmd(c) ==
    [prog |-> "mount -t cifs", user |-> c.user, password |-> c.password,
     options |-> c.options, address |-> c.address, sharename |-> c.sharename,
     mountpoint |-> c.mountpoint]

\* one pass of mount's for loop up to the entry of execute (l.101-120, l.136-137)
mount_name ==
    /\ pc = "mount"
    /\ idx <= Len(mounts)
    /\ LET n == mounts[idx] IN
       IF n \notin DOMAIN store
       THEN /\ status' = NotFound(status, n)
            /\ out' = out \o << Line("syslog", "cifs name {} not found in cifstab", <<n>>),
                                Line("stdout", "cifs name {} not found in cifstab", <<n>>) >>
            /\ idx' = idx + 1
            /\ pc' = "mount"
            /\ UNCHANGED <<dirs, execvars, exitcode>>
       ELSE IF ~CredentialsDecrypt(key, store[n])
       THEN \* cryptography.fernet.InvalidToken is not caught
            /\ out' = Append(out, Line("stderr", "Traceback: InvalidToken", <<>>))
            /\ pc' = "crashed"
            /\ exitcode' = 1
            /\ UNCHANGED <<status, idx, dirs, execvars>>
       ELSE LET c == getcredentials(key, n, store[n]) IN
            /\ IF args.u
               THEN /\ out' = Append(out, Line("syslog", "Attempting umount {}", <<n>>))
                    /\ cmd' = UmountCmd(c)
                    /\ retryon' = retryschema_umount
                    /\ dirs' = dirs
               ELSE /\ out' = Append(out, Line("syslog", "Attempting mount {}", <<n>>))
                    /\ dirs' = makedirs(dirs, c.mountpoint)
                    /\ cmd' = MountCmd(c)
                    /\ retryon' = retryschema_mount
            /\ name' = n
            /\ returncode' = <<>>
            /\ status' = [status EXCEPT !.attempts = (n :> 0) @@ @]
            /\ pc' = "execute"
            /\ UNCHANGED <<idx, exitcode>>
    /\ UNCHANGED <<cifstabdir, root, keyfile, store, args, key, mounts, trace, hist, racevars>>

\* mounterr is the result of the search of l.143, NoSearch when the command
\* exited 0 and l.143 was not reached
NoSearch == [matched |-> FALSE, group |-> <<>>]

RunEvent(n, c, rc, stderr, mounterr) ==
    [ev |-> "run", name |-> n, cmd |-> c, rc |-> rc, stderr |-> stderr, mounterr |-> mounterr]

SleepEvent(n) ==
    [ev |-> "sleep", name |-> n, cmd |-> NoCmd, rc |-> 0, stderr |-> <<>>, mounterr |-> NoSearch]

\* one pass of execute's while loop (l.138-157)
execute_attempt ==
    /\ pc = "execute"
    /\ LoopCond(returncode, status.attempts[name], args.retries)
    /\ \E rc \in ReturnCodes : \E stderr \in (IF rc = 0 THEN {<<>>} ELSE Stderrs) :
         /\ returncode' = <<rc>>
         /\ IF rc = 0
            THEN /\ status' = CountAttempt(status, name)
                 /\ trace' = Append(trace, RunEvent(name, cmd, rc, stderr, NoSearch))
                 /\ pc' = "execute"
                 /\ UNCHANGED <<out, exitcode>>
            ELSE LET m == RegexSearch(stderr) IN
                 IF ~m.matched
                 THEN \* None.group(1): AttributeError is not caught
                      /\ trace' = Append(trace, RunEvent(name, cmd, rc, stderr, m))
                      /\ out' = Append(out, Line("stderr", "Traceback: AttributeError", <<>>))
                      /\ pc' = "crashed"
                      /\ exitcode' = 1
                      /\ UNCHANGED status
                 ELSE LET logged == out \o << Line("syslog", "Error: {}", stderr),
                                              Line("syslog", "Returned: {}", <<ToString(rc)>>),
                                              Line("syslog", "MountErr: {}", m.group),
                                              Line("stderr", "{}", stderr) >>
                      IN  IF Retryable(m.group, retryon)
                          THEN /\ trace' = trace \o << RunEvent(name, cmd, rc, stderr, m), SleepEvent(name) >>
                               /\ status' = CountAttempt(AttemptFailed(status, name, stderr), name)
                               /\ out' = logged
                               /\ pc' = "execute"
                               /\ UNCHANGED exitcode
                          ELSE /\ trace' = Append(trace, RunEvent(name, cmd, rc, stderr, m))
                               /\ status' = AttemptFailed(status, name, stderr)
                               /\ out' = Append(logged, Line("syslog",
                                             "mounterr {} not in retryschema, no retry attempt will be made", m.group))
                               /\ pc' = "execute_break"
                               /\ UNCHANGED exitcode
    /\ UNCHANGED <<fsvars, args, key, mounts, idx, name, cmd, retryon, hist, racevars>>

\* the end of execute and the return to mount's for loop (l.159-165)
execute_finish ==
    /\ \/ pc = "execute_break"
       \/ pc = "execute" /\ ~LoopCond(returncode, status.attempts[name], args.retries)
    /\ status' = RecordOutcome(status, name, returncode)
    /\ idx' = idx + 1
    /\ pc' = "mount"
    /\ UNCHANGED <<fsvars, args, key, mounts, execvars, hist, racevars, exitcode, out, trace>>

\* mount returns when its for loop is exhausted
mount_return ==
    /\ pc = "mount"
    /\ idx > Len(mounts)
    /\ pc' = "checkstatus"
    /\ UNCHANGED <<fsvars, args, key, status, mounts, idx, execvars, hist, racevars, exitcode, out, trace>>

\* Cifscloak.checkstatus (l.64-67)
checkstatus ==
    /\ pc = "checkstatus"
    /\ out' = IF status.error # 0
              THEN Append(out, Line("stdout", "json.dumps(self.status)", <<>>))
              ELSE out
    /\ exitcode' = status.error
    /\ pc' = "exit"
    /\ UNCHANGED <<fsvars, args, key, status, mounts, idx, execvars, hist, racevars, trace>>

Next ==
    \/ Cifscloak_init
    \/ addmount
    \/ removemounts
    \/ listmounts
    \/ mount
    \/ mount_name
    \/ execute_attempt
    \/ execute_finish
    \/ mount_return
    \/ checkstatus

Spec == Init /\ [][Next]_vars

(* ------------- concurrent invocations at the key file (l.58-62) --------- *)

Procs == 1..NumProcs

\* Fernet.generate_key() of each invocation: fresh, so pairwise distinct
GeneratedKeys == <<"kgen1", "kgen2", "kgen3", "kgen4">>

generate_key(p) == GeneratedKeys[p]

\* content of a key file that open(...,'wb') has created or truncated and
\* that has not been written yet
EmptyFile == "empty"

\* the variables of one invocation, which the steps of SpecKey leave alone
mainvars == <<cifstabdir, root, dirs, args, pc, key, status, mounts, idx, name, cmd,
              retryon, returncode, exitcode, out, trace, store0, dirs0>>

\* invocations started at once by root, the directory and the table in place,
\* at l.58; the key file is absent or holds K1
InitKey ==
    /\ cifstabdir = TRUE
    /\ root = TRUE
    /\ keyfile \in {NoFile, K1}
    /\ store = <<>>
    /\ dirs = {}
    /\ args = [ArgDefaults EXCEPT !.subcommand = "addmount"]
    /\ pc = "init"
    /\ key = "none"
    /\ status = InitStatus
    /\ mounts = <<>>
    /\ idx = 1
    /\ name = "none"
    /\ cmd = NoCmd
    /\ retryon = <<>>
    /\ returncode = <<>>
    /\ exitcode = -1
    /\ out = <<>>
    /\ trace = <<>>
    /\ store0 = store
    /\ dirs0 = dirs
    /\ kpc = [p \in Procs |-> "exists"]
    /\ kkey = [p \in Procs |-> "none"]
    /\ kwrites = 0

\* if not os.path.exists(self.keyfile) (l.58)
key_exists(p) ==
    /\ kpc[p] = "exists"
    /\ kpc' = [kpc EXCEPT ![p] = IF keyfile = NoFile THEN "open" ELSE "read"]
    /\ UNCHANGED <<keyfile, store, kkey, kwrites, mainvars>>

\* open(self.keyfile,'wb') (l.59): creates the file or truncates it; root is
\* not stopped by the S_IRUSR mode another invocation has set
key_open(p) ==
    /\ kpc[p] = "open"
    /\ keyfile' = EmptyFile
    /\ kpc' = [kpc EXCEPT ![p] = "write"]
    /\ UNCHANGED <<store, kkey, kwrites, mainvars>>

\* f.write(Fernet.generate_key()), the close of the file and os.chmod (l.60-61)
key_write(p) ==
    /\ kpc[p] = "write"
    /\ keyfile' = generate_key(p)
    /\ kwrites' = kwrites + 1
    /\ kpc' = [kpc EXCEPT ![p] = "read"]
    /\ UNCHANGED <<store, kkey, mainvars>>

\* self.key = Fernet(open(self.keyfile,'rb').read()) (l.62): Fernet raises
\* ValueError on a key that is not 32 url-safe base64-encoded bytes
key_read(p) ==
    /\ kpc[p] = "read"
    /\ IF keyfile = EmptyFile
       THEN /\ kpc' = [kpc EXCEPT ![p] = "crashed"]
            /\ kkey' = kkey
       ELSE /\ kpc' = [kpc EXCEPT ![p] = "dispatch"]
            /\ kkey' = [kkey EXCEPT ![p] = keyfile]
    /\ UNCHANGED <<keyfile, store, kwrites, mainvars>>

\* the invocation goes on with addmount (l.69-79) under the key it holds
key_addmount(p) ==
    /\ kpc[p] = "dispatch"
    /\ \E n \in Names :
         store' = IF IntegrityError(store, n) THEN store
                  ELSE InsertRow(store, n, StoredRow(n, kkey[p]))
    /\ kpc' = [kpc EXCEPT ![p] = "exit"]
    /\ UNCHANGED <<keyfile, kkey, kwrites, mainvars>>

NextKey ==
    \E p \in Procs :
        \/ key_exists(p)
        \/ key_open(p)
        \/ key_write(p)
        \/ key_read(p)
        \/ key_addmount(p)

SpecKey == InitKey /\ [][NextKey]_vars

TypeOK ==
    /\ pc \in {"init", "dispatch", "mount", "execute", "execute_break", "checkstatus", "exit", "aborted", "crashed"}
    /\ DOMAIN store \subseteq Names
    /\ \A n \in DOMAIN store : store[n] \in cifstabschema
    /\ status.error \in {0, 1}
    /\ exitcode \in {-1, 0, 1}

(* ------------------------ vocabulary of the claims ---------------------- *)

InSeq(x, q) == \E k \in 1..Len(q) : q[k] = x

Range(q) == { q[k] : k \in 1..Len(q) }

IsMountRun == args.subcommand = "mount"

\* the run went through checkstatus
RunEnded == IsMountRun /\ pc = "exit"

\* execute has completed for n
Finished(n) == InSeq(n, status.success) \/ InSeq(n, status.failed)

\* positions in trace of the external commands run for n, and of its waits
RunIdx(n) == { k \in 1..Len(trace) : trace[k].ev = "run" /\ trace[k].name = n }

SleepIdx(n) == { k \in 1..Len(trace) : trace[k].ev = "sleep" /\ trace[k].name = n }

FirstRun(n) == trace[CHOOSE k \in RunIdx(n) : \A j \in RunIdx(n) : k <= j]

LastRun(n) == trace[CHOOSE k \in RunIdx(n) : \A j \in RunIdx(n) : j <= k]

\* the allow-list of the operation of this run
AllowList == IF args.u THEN retryschema_umount ELSE retryschema_mount

Token16 == [matched |-> TRUE, group |-> <<"1", "6">>]

\* every command run for n failed with the token 16
AlwaysBusy(n) ==
    \A k \in RunIdx(n) : trace[k].rc # 0 /\ trace[k].mounterr = Token16

\* the names mount's for loop has handled, from the syslog lines of l.105,
\* l.111 and l.115, in order
RECURSIVE Handled(_)
Handled(o) ==
    IF o = <<>> THEN <<>>
    ELSE IF /\ Head(o).chan = "syslog"
            /\ Head(o).fmt \in {"cifs name {} not found in cifstab",
                                "Attempting umount {}", "Attempting mount {}"}
         THEN <<Head(o).arg[1]>> \o Handled(Tail(o))
         ELSE Handled(Tail(o))

\* the elements of l at the positions of their first occurrence
FirstOccurrences(l) ==
    LET keep == { k \in 1..Len(l) : \A j \in 1..(k - 1) : l[j] # l[k] }
        pos == [i \in 1..Cardinality(keep) |->
                   CHOOSE k \in keep : Cardinality({ j \in keep : j < k }) = i - 1]
    IN  [i \in 1..Cardinality(keep) |-> l[pos[i]]]

IsPrefix(p, q) == Len(p) <= Len(q) /\ \A k \in 1..Len(p) : p[k] = q[k]

NoRepeats(q) == \A i, j \in 1..Len(q) : i # j => q[i] # q[j]

(* ------------------------------- claims -------------------------------- *)

\* C1: if every resolved name ends the run in status.success (also after
\* retried attempts), status.error and the exit code are 0 at the end of the run.
C1_AllSucceededExitsZero ==
    (RunEnded /\ \A k \in 1..Len(mounts) : InSeq(mounts[k], status.success))
        => (status.error = 0 /\ exitcode = 0)

\* C2: a run that reaches its end with a failed or a not-found name has
\* status.error = 1 and exit code 1, for every retries value.
C2_FailureExitsOne ==
    (RunEnded /\ (Len(status.failed) > 0 \/ \E k \in 1..Len(mounts) : mounts[k] \notin DOMAIN store))
        => (status.error = 1 /\ exitcode = 1)

C2_Witness ==
    /\ RunEnded
    /\ args.retries = 0
    /\ Len(status.failed) > 0
    /\ \E k \in 1..Len(mounts) : mounts[k] \notin DOMAIN store
    /\ exitcode = 1

\* C3: at the end of a run every name of the batch that is absent from the
\* store has set status.error and is in status.failed, and every other name
\* whose command exited 0 is in status.success.
C3_NotFoundInFailedList ==
    RunEnded =>
        \A k \in 1..Len(mounts) :
            IF mounts[k] \notin DOMAIN store
            THEN status.error = 1 /\ InSeq(mounts[k], status.failed)
            ELSE (RunIdx(mounts[k]) # {} /\ LastRun(mounts[k]).rc = 0)
                     => InSeq(mounts[k], status.success)

\* C4: a mount whose command fails with error(16) on every attempt is run
\* exactly retries times and is then in status.failed with attempts = retries.
C4_BusyRunsRetriesTimes ==
    \A n \in Names :
        (IsMountRun /\ ~args.u /\ Finished(n) /\ AlwaysBusy(n))
            => /\ Cardinality(RunIdx(n)) = args.retries
               /\ InSeq(n, status.failed)
               /\ status.attempts[n] = args.retries

C4_Witness ==
    /\ RunEnded
    /\ ~args.u
    /\ args.retries = 3
    /\ \E n \in Names :
          /\ InSeq(n, status.failed)
          /\ AlwaysBusy(n)
          /\ Cardinality(RunIdx(n)) = 3
          /\ Cardinality(SleepIdx(n)) = 3

\* C5: a name whose first command fails with a token outside the allow-list
\* of the operation has exactly one command run, no wait, and is in
\* status.failed.
C5_NonRetryableRunsOnce ==
    \A n \in Names :
        (/\ IsMountRun
         /\ Finished(n)
         /\ RunIdx(n) # {}
         /\ FirstRun(n).rc # 0
         /\ FirstRun(n).mounterr.matched
         /\ ~InList(FirstRun(n).mounterr.group, AllowList))
            => /\ Cardinality(RunIdx(n)) = 1
               /\ SleepIdx(n) = {}
               /\ InSeq(n, status.failed)

C5_Witness ==
    /\ RunEnded
    /\ args.retries >= 2
    /\ \E n \in Names :
          /\ InSeq(n, status.failed)
          /\ Cardinality(RunIdx(n)) = 1
          /\ SleepIdx(n) = {}
          /\ FirstRun(n).rc # 0
          /\ FirstRun(n).stderr = ErrNoEnt
          /\ FirstRun(n).mounterr.group = <<"2">>
          /\ ~InList(FirstRun(n).mounterr.group, AllowList)

\* C6: once execute has finished for a name, status.attempts[name] is the
\* number of external commands run for it, whatever the outcome.
C6_AttemptsCountCommands ==
    \A n \in Names :
        (IsMountRun /\ Finished(n)) => status.attempts[n] = Cardinality(RunIdx(n))

\* C7: for an explicit list of names, mount handles each distinct name at
\* most once, in the order of the first occurrences in the list.
C7_DedupKeepsFirstOccurrences ==
    (IsMountRun /\ ~args.all)
        => /\ NoRepeats(Handled(out))
           /\ IsPrefix(Handled(out), FirstOccurrences(args.names))

C7_Witness ==
    /\ RunEnded
    /\ ~args.all
    /\ args.names = <<"b", "a", "b">>
    /\ Handled(out) = <<"b", "a">>
    /\ Cardinality(RunIdx("b")) >= 1

\* C8: the batch always runs to completion: no per-name failure stops a mount
\* run before the final status check, and at the exit every resolved name
\* has been handled.
C8_BatchRunsToCompletion ==
    IsMountRun => /\ pc # "crashed"
                  /\ pc = "exit" => idx > Len(mounts)

\* C9: addmount with a name that is already stored leaves the table as it
\* was: the row of that name and every other row keep their values.
C9_DuplicateAddKeepsStore ==
    (/\ args.subcommand = "addmount"
     /\ args.name \in DOMAIN store0
     /\ pc \in {"checkstatus", "exit"})
        => /\ store = store0
           /\ \E k \in 1..Len(out) : out[k].fmt = "Cifs mount name must be unique"

C9_Witness ==
    /\ args.subcommand = "addmount"
    /\ pc = "exit"
    /\ args.name \in DOMAIN store0
    /\ args.sharename = "films"
    /\ Cardinality(DOMAIN store0) = 2
    /\ out[1].fmt = "Cifs mount name must be unique"

\* C10: removemounts never raises, deletes the rows whose names are listed
\* and leaves every other row unchanged; a listed name that is not stored
\* changes nothing.
C10_RemoveOnlyListed ==
    (args.subcommand = "removemounts" /\ pc # "init" /\ pc # "dispatch")
        => /\ pc \in {"checkstatus", "exit", "aborted"}
           /\ DOMAIN store = (DOMAIN store0) \ Range(args.names)
           /\ \A n \in DOMAIN store : store[n] = store0[n]

C10_Witness ==
    /\ args.subcommand = "removemounts"
    /\ pc = "exit"
    /\ \E k \in 1..Len(args.names) : args.names[k] \notin DOMAIN store0
    /\ Range(args.names) \cap DOMAIN store0 = {}
    /\ store = store0
    /\ store # <<>>

\* mount's for loop has fetched the credentials of mounts[k]
LookedUp(k) == k < idx \/ (k = idx /\ pc \in {"execute", "execute_break", "crashed"})

Undecryptable(n) == n \in DOMAIN store /\ ~CredentialsDecrypt(key, store[n])

\* status.messages has an entry of execute for n, has the not-found entry of n
HasMessage(n) ==
    \E k \in 1..Len(status.messages) :
        status.messages[k].fmt = "{}: {}" /\ status.messages[k].name = n

HasNotFound(n) ==
    \E k \in 1..Len(status.messages) :
        /\ status.messages[k].fmt = "cifs name {} not found in cifstab"
        /\ status.messages[k].name = n

\* C11: a command that exits non-zero with a stderr of neither shape has no
\* token and is not retried: the run goes on, and at its end the name is in
\* status.failed with that command as its only one.
C11_NoTokenIsTerminalFailure ==
    \A k \in 1..Len(trace) :
        (trace[k].ev = "run" /\ trace[k].rc # 0 /\ ~trace[k].mounterr.matched)
            => /\ pc # "crashed"
               /\ pc = "exit" => /\ InSeq(trace[k].name, status.failed)
                                 /\ RunIdx(trace[k].name) = {k}

\* C12: a name whose stored ciphertext does not decrypt is a per-name failure:
\* once looked up, the run still reaches its end, with the error flag set and
\* the name in status.failed.
C12_UndecryptableIsPerNameFailure ==
    \A k \in 1..Len(mounts) :
        (IsMountRun /\ LookedUp(k) /\ Undecryptable(mounts[k]))
            => /\ pc # "crashed"
               /\ pc = "exit" => (status.error = 1 /\ InSeq(mounts[k], status.failed))

\* C13 as claimed: at the end of a run, for every retries value including 0,
\* every name of status.failed has an entry in status.messages and every
\* not-found name has its not-found entry.
C13_EveryFailureHasMessage ==
    RunEnded =>
        /\ \A n \in Range(status.failed) : HasMessage(n)
        /\ \A k \in 1..Len(mounts) : mounts[k] \notin DOMAIN store => HasNotFound(mounts[k])

\* C13 as amended: at the end of a run with retries >= 1 every name of
\* status.failed has an entry in status.messages that carries the stderr of
\* its last command; for every retries value every not-found name has its
\* not-found entry.
C13_CommandFailureHasMessage ==
    RunEnded =>
        /\ args.retries >= 1 =>
              \A n \in Range(status.failed) :
                  /\ RunIdx(n) # {}
                  /\ \E k \in 1..Len(status.messages) :
                        status.messages[k] = [fmt |-> "{}: {}", name |-> n,
                                              text |-> LastRun(n).stderr]
        /\ \A k \in 1..Len(mounts) : mounts[k] \notin DOMAIN store => HasNotFound(mounts[k])

C13_Witness ==
    /\ RunEnded
    /\ args.retries = 2
    /\ Len(status.failed) = 1
    /\ Cardinality(RunIdx(status.failed[1])) = 2
    /\ HasMessage(status.failed[1])
    /\ \E k \in 1..Len(mounts) : mounts[k] \notin DOMAIN store /\ HasNotFound(mounts[k])

\* C14: the attempt counter of a name and the number of commands run for it
\* never exceed the retry limit, and the counter of the name being processed
\* never decreases.
C14_AttemptsBoundedMonotonic ==
    /\ [](IsMountRun =>
            \A n \in DOMAIN status.attempts :
                /\ status.attempts[n] <= args.retries
                /\ Cardinality(RunIdx(n)) <= args.retries)
    /\ [][(IsMountRun /\ pc \in {"execute", "execute_break"})
              => status'.attempts[name] >= status.attempts[name]]_vars

C14_Witness ==
    /\ RunEnded
    /\ args.retries = 3
    /\ \E n \in DOMAIN status.attempts :
          /\ status.attempts[n] = 3
          /\ Cardinality(RunIdx(n)) = 3
          /\ InSeq(n, status.success)

\* C15: a wait elapses only between two attempts of a name: once execute has
\* finished for a name, each of its waits is followed by another command of
\* that name, so N commands go with N-1 waits.
C15_WaitOnlyBetweenAttempts ==
    \A n \in Names :
        (IsMountRun /\ Finished(n))
            => /\ \A w \in SleepIdx(n) : \E r \in RunIdx(n) : r > w
               /\ RunIdx(n) # {} => Cardinality(SleepIdx(n)) = Cardinality(RunIdx(n)) - 1

IsUmountCmd(c) == c.prog = "umount"

\* C16: a failed command is followed by another command of the same name only
\* if its token is 16 for mount, 'target is busy.' for umount.
C16_RetryOnlyOnOwnAllowList ==
    \A k \in 1..Len(trace) :
        (/\ IsMountRun
         /\ trace[k].ev = "run"
         /\ trace[k].rc # 0
         /\ \E j \in RunIdx(trace[k].name) : j > k)
            => /\ trace[k].mounterr.matched
               /\ trace[k].mounterr.group =
                     IF IsUmountCmd(trace[k].cmd) THEN retryschema_umount[1]
                                                  ELSE retryschema_mount[1]

C16_Witness ==
    /\ RunEnded
    /\ args.u
    /\ args.retries = 3
    /\ mounts = <<"a", "b">>
    /\ Cardinality(RunIdx("a")) = 2
    /\ FirstRun("a").stderr = ErrTargetBusy
    /\ InSeq("a", status.success)
    /\ Cardinality(RunIdx("b")) = 1
    /\ FirstRun("b").stderr = ErrBusy16
    /\ InSeq("b", status.failed)

\* the names whose credentials mount has obtained
WithCredentials ==
    { mounts[k] : k \in { j \in 1..Len(mounts) :
                            /\ LookedUp(j)
                            /\ mounts[j] \in DOMAIN store
                            /\ ~Undecryptable(mounts[j]) } }

\* C17: in a mount operation the mount point of a name with credentials
\* exists before its first command and at each of its commands; an umount
\* operation and a not-found name create no directory.
C17_MountPointCreatedForMountOnly ==
    /\ (IsMountRun /\ ~args.u)
          => /\ dirs = dirs0 \cup { decrypt(key, store[n].mountpoint) : n \in WithCredentials }
             /\ pc = "execute" => cmd.mountpoint \in dirs
             /\ \A k \in 1..Len(trace) : trace[k].ev = "run" => trace[k].cmd.mountpoint \in dirs
    /\ (IsMountRun /\ args.u) => dirs = dirs0

C17_Witness ==
    /\ RunEnded
    /\ ~args.u
    /\ dirs0 = {}
    /\ dirs = {MountPointOf("a")}
    /\ mounts = <<"b", "a">>
    /\ "b" \notin DOMAIN store
    /\ RunIdx("a") # {}

\* the names for which a call of execute has completed
Completed ==
    { mounts[k] : k \in { j \in 1..Len(mounts) : j < idx /\ mounts[j] \in DOMAIN store } }

ExitedZero(n) == RunIdx(n) # {} /\ LastRun(n).rc = 0

\* C20: status.successcount and status.failedcount are the lengths of
\* status.success and status.failed, and each name for which execute has
\* completed is once in exactly one of the lists: in success when its last
\* command exited 0, in failed otherwise.
C20_CountsMatchLists ==
    IsMountRun =>
        /\ status.successcount = Len(status.success)
        /\ status.failedcount = Len(status.failed)
        /\ NoRepeats(status.success \o status.failed)
        /\ Range(status.success) \cup Range(status.failed) = Completed
        /\ \A n \in Completed : InSeq(n, status.success) <=> ExitedZero(n)

C20_Witness ==
    /\ RunEnded
    /\ status.successcount = 1
    /\ status.failedcount = 1
    /\ status.success = <<"b">>
    /\ status.failed = <<"a">>
    /\ Cardinality(RunIdx("b")) = 2
    /\ Cardinality(RunIdx("a")) = 3

\* C18: however invocations that start at once interleave, the key file is
\* written at most once, none of them fails at the key file, and once all of
\* them have finished each holds the key that is in the key file, so every
\* row they stored decrypts under it.
C18_KeyGeneratedOnce ==
    /\ kwrites <= 1
    /\ \A p \in DOMAIN kpc : kpc[p] # "crashed"
    /\ (\A p \in DOMAIN kpc : kpc[p] = "exit")
          => /\ \A p \in DOMAIN kpc : kkey[p] = keyfile
             /\ \A n \in DOMAIN store : CredentialsDecrypt(keyfile, store[n])
====
